---- MODULE Spec2Model ----
(***************************************************************************)
(* Model of the two quality gates of scripts/:                             *)
(*   check_coverage.py                (CoverageChecker, main)              *)
(*   check_performance_regression.py  (PerformanceRegressionChecker, main) *)
(*                                                                         *)
(* One behaviour is one invocation of one of the two command-line          *)
(* programs.  Files are read when the code reads them: the action that     *)
(* models a read draws the file's state from a small set.                  *)
(*                                                                         *)
(* Numbers.  In the coverage gate every real number x is the integer       *)
(* 1000 * x (a rate 0.83 is 830, a percentage 83.0 is 83000), so that      *)
(* "rate * 100" is a multiplication by 100 and "target + 5" an addition of *)
(* Fx(5).  In the regression gate numbers are exact fractions [num, den]   *)
(* with den > 0, so that (c - b) / b and the comparison with the threshold *)
(* are exact.  Rounding of binary floating point is outside the model.     *)
(***************************************************************************)
EXTENDS Integers, Sequences, FiniteSets, TLC

VARIABLES
    gate,              \* which program runs: "coverage" or "regression"
    pc,                \* position in main()
    args_json,         \* args.json
    targets,           \* CoverageChecker.targets
    thresholds,        \* PerformanceRegressionChecker.thresholds
    coverage_data,     \* main's coverage_data (None before the parse)
    check_results,     \* main's check_results (None before the check)
    benchmark_dirs,    \* check_regressions' benchmark_dirs
    idx,               \* position of the for loop in benchmark_dirs
    baseline_results,  \* check_regressions' local of the last iteration
    current_results,   \* check_regressions' local of the last iteration
    comparison,        \* check_regressions' local of the last iteration
    regressions,       \* check_regressions' list / main's regressions
    root_dirs,         \* the names of the directories iterdir() found under the root
    scanned,           \* what each finished iteration of the loop observed
    output,            \* what was printed, in order
    exc,               \* the uncaught exception and the function that raised it
    exit_code          \* the process's exit status, -1 while it runs

vars == <<gate, pc, args_json, targets, thresholds, coverage_data,
          check_results, benchmark_dirs, idx, baseline_results,
          current_results, comparison, regressions, root_dirs, scanned,
          output, exc, exit_code>>

----------------------------------------------------------------------------
(* Bounds of the model *)

\* longest list of <package> elements in a coverage artifact
MaxPackages == 2

\* most entries in the benchmark root directory
MaxEntries == 3

----------------------------------------------------------------------------
(* Generic helpers *)

None == [tag |-> "None"]

\* no exception is in flight
NoException == [type |-> "none", in |-> ""]

\* the sequences over S of length at most n
SeqsUpTo(S, n) == UNION {[1..k -> S] : k \in 0..n}

\* the elements of a sequence
Range(s) == {s[i] : i \in 1..Len(s)}

\* a real number x of the coverage gate, as the integer 1000 * x
Fx(n) == n * 1000

\* str.startswith on strings held as tuples of characters
StartsWith(s, prefix) ==
    /\ Len(s) >= Len(prefix)
    /\ SubSeq(s, 1, Len(prefix)) = prefix

\* d[key] = value on a dict held as a sequence of records with a field
\* "key" (insertion order kept, an existing key overwritten in place)
DictSet(d, key, value) ==
    IF \E i \in 1..Len(d) : d[i].key = key
    THEN [i \in 1..Len(d) |-> IF d[i].key = key THEN value ELSE d[i]]
    ELSE Append(d, value)

DictHas(d, key) == \E i \in 1..Len(d) : d[i].key = key

DictGet(d, key) == d[CHOOSE i \in 1..Len(d) : d[i].key = key]

----------------------------------------------------------------------------
(* Coverage gate: check_coverage.py *)

\* "ccusage_rs::" (line 125)
CorePrefix == <<"c", "c", "u", "s", "a", "g", "e", "_", "r", "s", ":", ":">>

\* CoverageChecker.__init__: the default targets
DefaultTargets ==
    [overall |-> Fx(80), line |-> Fx(80), branch |-> Fx(75), function |-> Fx(85)]

\* the targets main() may set from --overall-target, --line-target,
\* --branch-target, --function-target
TargetSets ==
    { DefaultTargets,
      [overall |-> Fx(80), line |-> Fx(85), branch |-> Fx(80), function |-> Fx(80)] }

\* An XML attribute: absent, not a number, or a number.
AttrMissing == [kind |-> "missing", val |-> 0]
AttrBad == [kind |-> "bad", val |-> 0]
Attr(v) == [kind |-> "num", val |-> v]

\* float(element.get(name, 0)): the default 0 for an absent attribute;
\* "ValueError" for text that is no number
GetFloat(attr) ==
    CASE attr.kind = "missing" -> [raised |-> "none", val |-> 0]
      [] attr.kind = "bad" -> [raised |-> "ValueError", val |-> 0]
      [] OTHER -> [raised |-> "none", val |-> attr.val]

PackageNames ==
    { CorePrefix \o <<"a">>,                 \* ccusage_rs::a
      CorePrefix,                            \* ccusage_rs::
      SubSeq(CorePrefix, 1, 11) \o <<"a">>,  \* ccusage_rs:a
      <<"x">> \o CorePrefix }                \* xccusage_rs::

OverallLineAttrs == {AttrMissing, AttrBad, Attr(720), Attr(800), Attr(849), Attr(850)}
OverallBranchAttrs == {Attr(700), Attr(750), Attr(800)}
PackageLineAttrs == {Attr(700), Attr(820), Attr(900)}

PackageElements ==
    [name : PackageNames, line_rate : PackageLineAttrs, branch_rate : {Attr(500)}]

\* The <coverage> element that root.find(".//coverage") returns: a
\* descendant of the root (ElementTree's ".//" does not match the root
\* itself), or None.
CoverageElements ==
    {None} \cup
    [tag : {"coverage"}, line_rate : OverallLineAttrs, branch_rate : OverallBranchAttrs]

\* The states of the coverage artifact.
CoverageFiles ==
    { [exists |-> FALSE, wellformed |-> FALSE, root_tag |-> "",
       coverage_element |-> None, packages |-> <<>>],
      [exists |-> TRUE, wellformed |-> FALSE, root_tag |-> "",
       coverage_element |-> None, packages |-> <<>>] }
    \cup
    [exists : {TRUE}, wellformed : {TRUE}, root_tag : {"coverage", "report"},
     coverage_element : CoverageElements,
     packages : SeqsUpTo(PackageElements, MaxPackages)]

\* lines 50-59: the packages dict, filled in document order
RECURSIVE CollectPackages(_, _)
CollectPackages(elements, packages) ==
    IF elements = <<>> THEN packages
    ELSE LET package == Head(elements)
             package_line_rate == GetFloat(package.line_rate).val
             package_branch_rate == GetFloat(package.branch_rate).val
         IN CollectPackages(Tail(elements),
                DictSet(packages, package.name,
                    [key |-> package.name,
                     line_coverage |-> package_line_rate * 100,
                     branch_coverage |-> package_branch_rate * 100]))

\* CoverageChecker.parse_coverage_report: [printed, data]; every exception
\* inside the try block is caught, printed and turned into None
ParseCoverageReport(file) ==
    IF ~file.exists
    THEN [printed |-> <<[kind |-> "message", text |-> "report file does not exist"]>>, data |-> None]
    ELSE IF ~file.wellformed
    THEN [printed |-> <<[kind |-> "message", text |-> "parse failed"]>>, data |-> None]
    ELSE IF file.coverage_element = None
    THEN [printed |-> <<[kind |-> "message", text |-> "no coverage element"]>>, data |-> None]
    ELSE LET line_rate == GetFloat(file.coverage_element.line_rate)
             branch_rate == GetFloat(file.coverage_element.branch_rate)
         IN IF line_rate.raised # "none" \/ branch_rate.raised # "none"
            THEN [printed |-> <<[kind |-> "message", text |-> "parse failed"]>>, data |-> None]
            ELSE [printed |-> <<>>,
                  data |-> [tag |-> "data",
                            overall_line_coverage |-> line_rate.val * 100,
                            overall_branch_coverage |-> branch_rate.val * 100,
                            packages |-> CollectPackages(file.packages, <<>>),
                            raw |-> [line_rate |-> line_rate.val,
                                     branch_rate |-> branch_rate.val]]]

\* OverallNear with the band's upper end included
OverallNearInclusive(current, target) == current <= target + Fx(5)

\* lines 84-100 and 102-118: one overall check.  A message is held as its
\* template ("low" = below the target, "near" = close to the threshold) and
\* the values it shows.
OverallBelow(current, target) == current < target

OverallNear(current, target) == current < target + Fx(5)

CheckOverall(results, name, current, target) ==
    LET detail == [key |-> [prefix |-> name, name |-> <<>>],
                   current |-> current, target |-> target,
                   passed |-> current >= target]
        r1 == [results EXCEPT !.details = DictSet(@, detail.key, detail)]
    IN IF OverallBelow(current, target)
       THEN [r1 EXCEPT !.passed = FALSE,
                       !.failures = Append(@, [about |-> detail.key, template |-> "low",
                                               current |-> current, target |-> target])]
       ELSE IF OverallNear(current, target)
       THEN [r1 EXCEPT !.warnings = Append(@, [about |-> detail.key, template |-> "near",
                                               current |-> current, target |-> target])]
       ELSE r1

\* PackageTarget with the two targets exchanged
PackageTargetSwapped(package_name, t) ==
    IF StartsWith(package_name, CorePrefix) THEN t.line ELSE t.function

\* lines 124-128: the target of a package
PackageTarget(package_name, t) ==
    IF StartsWith(package_name, CorePrefix) THEN t.function ELSE t.line

\* CheckPackage with a shortfall of a package treated as a failure
CheckPackageFailing(results, package, t) ==
    LET target_coverage == PackageTarget(package.key, t)
        detail == [key |-> [prefix |-> "package_", name |-> package.key],
                   current |-> package.line_coverage, target |-> target_coverage,
                   passed |-> package.line_coverage >= target_coverage]
        r1 == [results EXCEPT !.details = DictSet(@, detail.key, detail)]
    IN IF package.line_coverage < target_coverage
       THEN [r1 EXCEPT !.passed = FALSE,
                       !.warnings = Append(@, [about |-> detail.key, template |-> "package_low",
                                               current |-> package.line_coverage,
                                               target |-> target_coverage])]
       ELSE r1

\* lines 121-141: one iteration of the loop over the packages
CheckPackage(results, package, t) ==
    LET package_line_coverage == package.line_coverage
        target_coverage == PackageTarget(package.key, t)
        detail == [key |-> [prefix |-> "package_", name |-> package.key],
                   current |-> package_line_coverage, target |-> target_coverage,
                   passed |-> package_line_coverage >= target_coverage]
        r1 == [results EXCEPT !.details = DictSet(@, detail.key, detail)]
    IN IF package_line_coverage < target_coverage
       THEN [r1 EXCEPT !.warnings = Append(@, [about |-> detail.key, template |-> "package_low",
                                               current |-> package_line_coverage,
                                               target |-> target_coverage])]
       ELSE r1

RECURSIVE CheckPackages(_, _, _)
CheckPackages(results, packages, t) ==
    IF packages = <<>> THEN results
    ELSE CheckPackages(CheckPackage(results, Head(packages), t), Tail(packages), t)

\* CoverageChecker.check_coverage
CheckCoverage(data, t) ==
    LET r0 == [tag |-> "results", passed |-> TRUE, failures |-> <<>>,
               warnings |-> <<>>, details |-> <<>>]
        r1 == CheckOverall(r0, "line_coverage", data.overall_line_coverage, t.line)
        r2 == CheckOverall(r1, "branch_coverage", data.overall_branch_coverage, t.branch)
    IN CheckPackages(r2, data.packages, t)

\* CoverageChecker.generate_report: the lines of the report, by section
CoverageReport(data, results, t) ==
    <<[line |-> "banner", passed |-> results.passed]>>
    \o <<[line |-> "overall", current |-> data.overall_line_coverage, target |-> t.line],
         [line |-> "overall", current |-> data.overall_branch_coverage, target |-> t.branch]>>
    \o [i \in 1..Len(data.packages) |->
            [line |-> "package", name |-> data.packages[i].key,
             current |-> data.packages[i].line_coverage,
             branch |-> data.packages[i].branch_coverage]]
    \o [i \in 1..Len(results.failures) |->
            [line |-> "failure", message |-> results.failures[i]]]
    \o [i \in 1..Len(results.warnings) |->
            [line |-> "warning", message |-> results.warnings[i]]]

InitCoverage ==
    /\ gate = "coverage"
    /\ pc = "parse"
    /\ args_json \in BOOLEAN
    /\ targets \in TargetSets
    /\ thresholds = None
    /\ coverage_data = None
    /\ check_results = None
    /\ benchmark_dirs = <<>>
    /\ idx = 0
    /\ baseline_results = None
    /\ current_results = None
    /\ comparison = None
    /\ regressions = <<>>
    /\ root_dirs = {}
    /\ scanned = <<>>
    /\ output = <<>>
    /\ exc = NoException
    /\ exit_code = -1

regressionVars == <<thresholds, benchmark_dirs, idx, baseline_results,
                    current_results, comparison, regressions, root_dirs, scanned>>

\* main, line 231: coverage_data = checker.parse_coverage_report()
CovParse ==
    /\ gate = "coverage" /\ pc = "parse"
    /\ \E file \in CoverageFiles :
         LET r == ParseCoverageReport(file)
         IN /\ coverage_data' = r.data
            /\ output' = output \o r.printed
    /\ pc' = "parsed"
    /\ UNCHANGED <<gate, args_json, targets, check_results, exc, exit_code>>
    /\ UNCHANGED regressionVars

\* main, lines 232-233: sys.exit(1) when the artifact could not be loaded
CovExitNotLoaded ==
    /\ gate = "coverage" /\ pc = "parsed"
    /\ coverage_data = None
    /\ exit_code' = 1
    /\ pc' = "exited"
    /\ UNCHANGED <<gate, args_json, targets, coverage_data, check_results, output, exc>>
    /\ UNCHANGED regressionVars

\* main, line 235: check_results = checker.check_coverage(coverage_data)
CovCheck ==
    /\ gate = "coverage" /\ pc = "parsed"
    /\ coverage_data # None
    /\ check_results' = CheckCoverage(coverage_data, targets)
    /\ pc' = "checked"
    /\ UNCHANGED <<gate, args_json, targets, coverage_data, output, exc, exit_code>>
    /\ UNCHANGED regressionVars

\* main, lines 237-249: the JSON dump or the text report
CovReport ==
    /\ gate = "coverage" /\ pc = "checked"
    /\ output' = Append(output,
         IF args_json
         THEN [kind |-> "json", passed |-> check_results.passed,
               coverage_data |-> coverage_data, check_results |-> check_results,
               targets |-> targets]
         ELSE [kind |-> "text",
               lines |-> CoverageReport(coverage_data, check_results, targets)])
    /\ pc' = "reported"
    /\ UNCHANGED <<gate, args_json, targets, coverage_data, check_results, exc, exit_code>>
    /\ UNCHANGED regressionVars

\* CoverageExitCode that ignores the verdict
CoverageExitCodeAlwaysZero(results) == 0

\* main, line 252: the exit status of the coverage gate
CoverageExitCode(results) == IF results.passed THEN 0 ELSE 1

CovExit ==
    /\ gate = "coverage" /\ pc = "reported"
    /\ exit_code' = CoverageExitCode(check_results)
    /\ pc' = "exited"
    /\ UNCHANGED <<gate, args_json, targets, coverage_data, check_results, output, exc>>
    /\ UNCHANGED regressionVars

----------------------------------------------------------------------------
(* Regression gate: check_performance_regression.py *)

\* Exact fractions, den > 0.
Rat(n, d) == [num |-> n, den |-> d]

RatSub(x, y) == Rat(x.num * y.den - y.num * x.den, x.den * y.den)

\* x / y for y > 0
RatDiv(x, y) == Rat(x.num * y.den, x.den * y.num)

RatTimes(x, k) == Rat(x.num * k, x.den)

RatGT(x, y) == x.num * y.den > y.num * x.den

RatEq(x, y) == x.num * y.den = y.num * x.den

\* PerformanceRegressionChecker.__init__: the default thresholds
DefaultThresholds == [time |-> Rat(10, 100), memory |-> Rat(15, 100)]

\* the thresholds main() may set from --time-threshold and
\* --memory-threshold (type=float: any number, negative ones included)
ThresholdSets ==
    { DefaultThresholds,
      [time |-> Rat(5, 100), memory |-> Rat(10, 100)],
      [time |-> Rat(-20, 100), memory |-> Rat(-20, 100)] }

\* The value of one metric key of an estimate document: the key is absent,
\* or its value is a mapping without "point_estimate", or a mapping with it.
Absent == [kind |-> "absent"]
NoPointEstimate == [kind |-> "no_point_estimate"]
PE(n) == [kind |-> "pe", val |-> Rat(n, 1)]

\* JSON values an estimates.json may hold
JsonMap(mean, memory) == [kind |-> "map", Mean |-> mean, memory |-> memory]
JsonNum(n) == [kind |-> "num", val |-> n]
JsonList(items) == [kind |-> "list", items |-> items]

EmptyDict == JsonMap(Absent, Absent)

\* what load_benchmark_results finds on disk
FileOf(value) == [dir_exists |-> TRUE, file_exists |-> TRUE, valid |-> TRUE, value |-> value]
NoDir == [dir_exists |-> FALSE, file_exists |-> FALSE, valid |-> FALSE, value |-> EmptyDict]
NoFile == [dir_exists |-> TRUE, file_exists |-> FALSE, valid |-> FALSE, value |-> EmptyDict]
InvalidJson == [dir_exists |-> TRUE, file_exists |-> TRUE, valid |-> FALSE, value |-> EmptyDict]

BaselineFiles ==
    {NoDir, NoFile, InvalidJson, FileOf(JsonNum(5)), FileOf(JsonList(<<"Mean">>))}
    \cup {FileOf(JsonMap(mean, memory)) :
            mean \in {Absent, NoPointEstimate, PE(0), PE(-100), PE(100)},
            memory \in {Absent, PE(0), PE(100)}}

CurrentFiles ==
    {NoDir, NoFile, InvalidJson, FileOf(JsonNum(5))}
    \cup {FileOf(JsonMap(mean, memory)) :
            mean \in {Absent, NoPointEstimate, PE(90), PE(110)},
            memory \in {Absent, PE(90), PE(115), PE(120)}}

\* PerformanceRegressionChecker.load_benchmark_results: {} when the
\* directory or the file is missing or the file is no JSON
LoadBenchmarkResults(file) ==
    IF ~file.dir_exists THEN EmptyDict
    ELSE IF ~file.file_exists THEN EmptyDict
    ELSE IF ~file.valid THEN EmptyDict
    ELSE file.value

\* Python's truth value of a loaded document ("if not baseline_results")
Truthy(v) ==
    CASE v.kind = "map" -> v.Mean # Absent \/ v.memory # Absent
      [] v.kind = "num" -> v.val # 0
      [] v.kind = "list" -> v.items # <<>>

\* key in v
Contains(key, v) ==
    CASE v.kind = "map" -> [raised |-> "none", val |-> v[key] # Absent]
      [] v.kind = "list" -> [raised |-> "none", val |-> key \in Range(v.items)]
      [] v.kind = "num" -> [raised |-> "TypeError", val |-> FALSE]

\* v[key]["point_estimate"], for key in v
PointEstimate(v, key) ==
    IF v.kind # "map" THEN [raised |-> "TypeError", val |-> Rat(0, 1)]
    ELSE IF v[key].kind = "no_point_estimate" THEN [raised |-> "KeyError", val |-> Rat(0, 1)]
    ELSE [raised |-> "none", val |-> v[key].val]

\* lines 57 and 74: baseline > 0
BaselinePositive(baseline) == baseline.num > 0

\* lines 58 and 75: (current - baseline) / baseline
RelativeChange(baseline, current) == RatDiv(RatSub(current, baseline), baseline)

\* ExceedsThreshold with >= for >
MeetsThreshold(change, threshold) == change.num * threshold.den >= threshold.num * change.den

\* lines 60 and 77: change > threshold
ExceedsThreshold(change, threshold) == RatGT(change, threshold)

\* lines 53-67 (key "Mean", metric "time") and 70-84 (key "memory",
\* metric "memory"): one metric of compare_benchmarks.
\* [raised, at, comparison]: "at" is the metric whose lines raised
CompareMetric(c0, key, metric, baseline, current, threshold) ==
    LET inBaseline == Contains(key, baseline)
        inCurrent == Contains(key, current)
        b == PointEstimate(baseline, key)
        c == PointEstimate(current, key)
        change == RelativeChange(b.val, c.val)
        detail == [key |-> metric, baseline |-> b.val, current |-> c.val,
                   change_percent |-> RatTimes(change, 100),
                   threshold |-> RatTimes(threshold, 100)]
    IN IF inBaseline.raised # "none" THEN [raised |-> inBaseline.raised, at |-> metric, comparison |-> c0]
       ELSE IF ~inBaseline.val THEN [raised |-> "none", at |-> "", comparison |-> c0]
       ELSE IF inCurrent.raised # "none" THEN [raised |-> inCurrent.raised, at |-> metric, comparison |-> c0]
       ELSE IF ~inCurrent.val THEN [raised |-> "none", at |-> "", comparison |-> c0]
       ELSE IF b.raised # "none" THEN [raised |-> b.raised, at |-> metric, comparison |-> c0]
       ELSE IF c.raised # "none" THEN [raised |-> c.raised, at |-> metric, comparison |-> c0]
       ELSE IF ~BaselinePositive(b.val) THEN [raised |-> "none", at |-> "", comparison |-> c0]
       ELSE [raised |-> "none", at |-> "",
             comparison |->
                [c0 EXCEPT ![metric \o "_change"] = change,
                           ![metric \o "_regression"] = ExceedsThreshold(change, threshold),
                           !.details = DictSet(@, metric, detail)]]

\* PerformanceRegressionChecker.compare_benchmarks: [raised, comparison]
CompareBenchmarks(baseline, current, thr) ==
    LET c0 == [tag |-> "comparison",
               time_regression |-> FALSE, memory_regression |-> FALSE,
               time_change |-> Rat(0, 1), memory_change |-> Rat(0, 1),
               details |-> <<>>]
        t == CompareMetric(c0, "Mean", "time", baseline, current, thr.time)
    IN IF t.raised # "none" THEN t
       ELSE CompareMetric(t.comparison, "memory", "memory", baseline, current, thr.memory)

\* the entries the benchmark root directory may hold
DirEntries ==
    { [name |-> "foo", is_dir |-> TRUE],
      [name |-> "bar", is_dir |-> TRUE],
      [name |-> "base", is_dir |-> TRUE],
      [name |-> "notes.txt", is_dir |-> FALSE] }

\* what criterion_dir.iterdir() may yield: the entries in any order
Listings ==
    {s \in SeqsUpTo(DirEntries, MaxEntries) :
        \A i, j \in 1..Len(s) : i # j => s[i].name # s[j].name}

\* IsBenchmarkDir without the exclusion of "base"
IsDir(d) == d.is_dir

\* line 94: d.is_dir() and d.name != "base"
IsBenchmarkDir(d) == d.is_dir /\ d.name # "base"

\* lines 93-94: benchmark_dirs
BenchmarkDirs(listing) == SelectSeq(listing, IsBenchmarkDir)

\* line 113: a comparison that reports a regression
HasRegression(c) == c.time_regression \/ c.memory_regression

\* An estimates.json that is present and holds a non-empty document.
FileNonEmpty(file) ==
    /\ file.dir_exists /\ file.file_exists /\ file.valid
    /\ file.value \notin {EmptyDict, JsonList(<<>>), JsonNum(0)}

\* lines 97-117: the body of the loop of check_regressions for one
\* benchmark, given the two files it may read.  The locals keep the value
\* of the last assignment; "step" tells where the body ended.
ScanBody(benchmark_name, bfile, cfile, thr, locals, regs) ==
    LET b == LoadBenchmarkResults(bfile)
        c == LoadBenchmarkResults(cfile)
        r == CompareBenchmarks(b, c, thr)
    IN IF ~Truthy(b)
       THEN [step |-> "no_baseline", raised |-> "none", at |-> "",
             baseline_results |-> b, current_results |-> locals.current_results,
             comparison |-> locals.comparison, regressions |-> regs]
       ELSE IF ~Truthy(c)
       THEN [step |-> "no_current", raised |-> "none", at |-> "",
             baseline_results |-> b, current_results |-> c,
             comparison |-> locals.comparison, regressions |-> regs]
       ELSE IF r.raised # "none"
       THEN [step |-> "raised", raised |-> r.raised, at |-> r.at,
             baseline_results |-> b, current_results |-> c,
             comparison |-> locals.comparison, regressions |-> regs]
       ELSE [step |-> "compared", raised |-> "none", at |-> "",
             baseline_results |-> b, current_results |-> c,
             comparison |-> r.comparison,
             regressions |->
                IF HasRegression(r.comparison)
                THEN Append(regs, [benchmark |-> benchmark_name,
                                   comparison |-> r.comparison])
                ELSE regs]

\* lines 134-137 and 139-142: the line of one regressed metric
MetricLine(c, metric) ==
    IF DictHas(c.details, metric)
    THEN [raised |-> "none",
          lines |-> <<[line |-> metric,
                       change_percent |-> DictGet(c.details, metric).change_percent,
                       threshold |-> DictGet(c.details, metric).threshold]>>]
    ELSE [raised |-> "KeyError", lines |-> <<>>]

\* lines 128-144: the lines of one entry of the regression set
EntryLines(regression) ==
    LET c == regression.comparison
        t == IF c.time_regression THEN MetricLine(c, "time")
             ELSE [raised |-> "none", lines |-> <<>>]
        m == IF c.memory_regression THEN MetricLine(c, "memory")
             ELSE [raised |-> "none", lines |-> <<>>]
    IN IF t.raised # "none" THEN t
       ELSE IF m.raised # "none" THEN m
       ELSE [raised |-> "none",
             lines |-> <<[line |-> "benchmark", name |-> regression.benchmark]>>
                       \o t.lines \o m.lines \o <<[line |-> "blank"]>>]

\* ReportEntries that renders the last entry first
RECURSIVE ReportEntriesReversed(_)
ReportEntriesReversed(regs) ==
    IF regs = <<>> THEN [raised |-> "none", lines |-> <<>>]
    ELSE LET first == EntryLines(Head(regs))
             rest == ReportEntriesReversed(Tail(regs))
         IN IF first.raised # "none" THEN first
            ELSE IF rest.raised # "none" THEN rest
            ELSE [raised |-> "none", lines |-> rest.lines \o first.lines]

RECURSIVE ReportEntries(_)
ReportEntries(regs) ==
    IF regs = <<>> THEN [raised |-> "none", lines |-> <<>>]
    ELSE LET first == EntryLines(Head(regs))
             rest == ReportEntries(Tail(regs))
         IN IF first.raised # "none" THEN first
            ELSE IF rest.raised # "none" THEN rest
            ELSE [raised |-> "none", lines |-> first.lines \o rest.lines]

\* PerformanceRegressionChecker.generate_report: [raised, lines]
GenerateReport(regs) ==
    IF regs = <<>> THEN [raised |-> "none", lines |-> <<[line |-> "no regressions"]>>]
    ELSE LET body == ReportEntries(regs)
         IN IF body.raised # "none" THEN body
            ELSE [raised |-> "none",
                  lines |-> <<[line |-> "title"], [line |-> "blank"]>> \o body.lines]

InitRegression ==
    /\ gate = "regression"
    /\ pc = "iterdir"
    /\ args_json \in BOOLEAN
    /\ targets = None
    /\ thresholds \in ThresholdSets
    /\ coverage_data = None
    /\ check_results = None
    /\ benchmark_dirs = <<>>
    /\ idx = 0
    /\ baseline_results = None
    /\ current_results = None
    /\ comparison = None
    /\ regressions = <<>>
    /\ root_dirs = {}
    /\ scanned = <<>>
    /\ output = <<>>
    /\ exc = NoException
    /\ exit_code = -1

coverageVars == <<targets, coverage_data, check_results>>

\* An exception nothing catches: the interpreter prints the traceback to
\* stderr and the process ends with status 1.
Uncaught(exception, where) ==
    /\ exc' = [type |-> exception, in |-> where]
    /\ exit_code' = 1
    /\ pc' = "crashed"

\* check_regressions, lines 90-94, the root directory missing: iterdir()
\* raises FileNotFoundError
RegIterdirMissing ==
    /\ gate = "regression" /\ pc = "iterdir"
    /\ Uncaught("FileNotFoundError", "check_regressions")
    /\ UNCHANGED <<gate, args_json, thresholds, benchmark_dirs, idx, baseline_results,
                   current_results, comparison, regressions, root_dirs, scanned, output>>
    /\ UNCHANGED coverageVars

\* check_regressions, lines 90-94, the root directory present
RegIterdir ==
    /\ gate = "regression" /\ pc = "iterdir"
    /\ \E listing \in Listings :
         /\ benchmark_dirs' = BenchmarkDirs(listing)
         /\ root_dirs' = {d.name : d \in {e \in Range(listing) : e.is_dir}}
    /\ idx' = 1
    /\ regressions' = <<>>
    /\ pc' = "scan"
    /\ UNCHANGED <<gate, args_json, thresholds, baseline_results, current_results,
                   comparison, scanned, output, exc, exit_code>>
    /\ UNCHANGED coverageVars

\* check_regressions, lines 96-117: one iteration of the loop
RegScanStep ==
    /\ gate = "regression" /\ pc = "scan"
    /\ idx <= Len(benchmark_dirs)
    /\ \E bfile \in BaselineFiles, cfile \in CurrentFiles :
         LET benchmark_name == benchmark_dirs[idx].name
             r == ScanBody(benchmark_name, bfile, cfile, thresholds,
                           [current_results |-> current_results,
                            comparison |-> comparison], regressions)
         IN /\ baseline_results' = r.baseline_results
            /\ current_results' = r.current_results
            /\ comparison' = r.comparison
            /\ regressions' = r.regressions
            /\ scanned' = Append(scanned,
                  [benchmark |-> benchmark_name,
                   baseline_nonempty |-> FileNonEmpty(bfile),
                   current_nonempty |-> FileNonEmpty(cfile),
                   step |-> r.step,
                   raised_at |-> r.at,
                   time_regression |-> r.step = "compared" /\ r.comparison.time_regression,
                   memory_regression |-> r.step = "compared" /\ r.comparison.memory_regression])
            /\ IF r.raised # "none"
               THEN Uncaught(r.raised, "compare_benchmarks") /\ idx' = idx
               ELSE idx' = idx + 1 /\ UNCHANGED <<pc, exc, exit_code>>
    /\ UNCHANGED <<gate, args_json, thresholds, benchmark_dirs, root_dirs, output>>
    /\ UNCHANGED coverageVars

\* check_regressions, line 119: return regressions (the locals end here)
RegScanReturn ==
    /\ gate = "regression" /\ pc = "scan"
    /\ idx > Len(benchmark_dirs)
    /\ baseline_results' = None
    /\ current_results' = None
    /\ comparison' = None
    /\ pc' = "scanned"
    /\ UNCHANGED <<gate, args_json, thresholds, benchmark_dirs, idx, regressions,
                   root_dirs, scanned, output, exc, exit_code>>
    /\ UNCHANGED coverageVars

\* main, lines 180-191: the JSON dump or the text report
RegReport ==
    /\ gate = "regression" /\ pc = "scanned"
    /\ IF args_json
       THEN /\ output' = Append(output,
                  [kind |-> "json", has_regressions |-> Len(regressions) > 0,
                   regressions |-> regressions, thresholds |-> thresholds])
            /\ pc' = "reported"
            /\ UNCHANGED <<exc, exit_code>>
       ELSE LET report == GenerateReport(regressions)
            IN IF report.raised # "none"
               THEN Uncaught(report.raised, "generate_report") /\ UNCHANGED output
               ELSE /\ output' = Append(output, [kind |-> "text", lines |-> report.lines])
                    /\ pc' = "reported"
                    /\ UNCHANGED <<exc, exit_code>>
    /\ UNCHANGED <<gate, args_json, thresholds, benchmark_dirs, idx, baseline_results,
                   current_results, comparison, regressions, root_dirs, scanned>>
    /\ UNCHANGED coverageVars

\* main, line 194: the exit status of the regression gate
RegressionExitCode(regs) == IF Len(regs) = 0 THEN 0 ELSE 1

RegExit ==
    /\ gate = "regression" /\ pc = "reported"
    /\ exit_code' = RegressionExitCode(regressions)
    /\ pc' = "exited"
    /\ UNCHANGED <<gate, args_json, thresholds, benchmark_dirs, idx, baseline_results,
                   current_results, comparison, regressions, root_dirs, scanned, output, exc>>
    /\ UNCHANGED coverageVars

----------------------------------------------------------------------------
(* The two programs *)

Init == InitCoverage \/ InitRegression

Next ==
    \/ CovParse
    \/ CovExitNotLoaded
    \/ CovCheck
    \/ CovReport
    \/ CovExit
    \/ RegIterdirMissing
    \/ RegIterdir
    \/ RegScanStep
    \/ RegScanReturn
    \/ RegReport
    \/ RegExit

Spec == Init /\ [][Next]_vars

----------------------------------------------------------------------------
(* Properties *)

Last(s) == s[Len(s)]

\* the number of messages about one check
CountAbout(msgs, key) == Len(SelectSeq(msgs, LAMBDA m : m.about = key))

OverallKey(name) == [prefix |-> name, name |-> <<>>]

PackageKey(name) == [prefix |-> "package_", name |-> name]

\* check_coverage has returned
Checked == check_results # None

\* C1: check_coverage returns passed = false exactly when the overall line
\* coverage is below the line target or the overall branch coverage is below
\* the branch target; the packages, however many and however far below
\* their targets, have no part in it.
C1_PassedIffOverallChecks ==
    Checked =>
        (~check_results.passed <=>
            \/ coverage_data.overall_line_coverage < targets.line
            \/ coverage_data.overall_branch_coverage < targets.branch)

\* two packages, both below their targets, and the gate passes
C1_Witness ==
    /\ Checked
    /\ check_results.passed
    /\ Len(coverage_data.packages) >= 2
    /\ \A i \in 1..Len(coverage_data.packages) :
          /\ DictHas(check_results.details, PackageKey(coverage_data.packages[i].key))
          /\ ~DictGet(check_results.details, PackageKey(coverage_data.packages[i].key)).passed

\* the messages of one overall check with value v and target T
C2_Band(name, v, T) ==
    LET w == CountAbout(check_results.warnings, OverallKey(name))
        f == CountAbout(check_results.failures, OverallKey(name))
    IN /\ (T <= v /\ v < T + Fx(5)) => (w = 1 /\ f = 0)
       /\ v < T => (f = 1 /\ w = 0)
       /\ v >= T + Fx(5) => (w = 0 /\ f = 0)

\* C2: for each of the two overall checks, a value in [T, T+5) gives exactly
\* one warning and no failure for that check, a value below T a failure and
\* no warning, a value of at least T+5 no message.
C2_WarningBand ==
    Checked =>
        /\ C2_Band("line_coverage", coverage_data.overall_line_coverage, targets.line)
        /\ C2_Band("branch_coverage", coverage_data.overall_branch_coverage, targets.branch)

\* line coverage exactly at T+5 (no message), branch coverage exactly at T
\* (one warning)
C2_Witness ==
    /\ Checked
    /\ coverage_data.overall_line_coverage = targets.line + Fx(5)
    /\ coverage_data.overall_branch_coverage = targets.branch
    /\ CountAbout(check_results.warnings, OverallKey("branch_coverage")) = 1
    /\ CountAbout(check_results.warnings, OverallKey("line_coverage")) = 0
    /\ check_results.failures = <<>>

\* the name begins with the twelve characters ccusage_rs::
IsCoreName(name) ==
    /\ Len(name) >= Len(CorePrefix)
    /\ \A i \in 1..Len(CorePrefix) : name[i] = CorePrefix[i]

C3_PackageTarget(name) == IF IsCoreName(name) THEN targets.function ELSE targets.line

\* C3: every package whose name begins with ccusage_rs:: is compared with
\* the function target and recorded with it in details; every other package
\* is compared with and recorded against the line target.
C3_CoreModuleSelection ==
    Checked =>
        \A i \in 1..Len(coverage_data.packages) :
            LET p == coverage_data.packages[i]
                want == C3_PackageTarget(p.key)
            IN /\ DictHas(check_results.details, PackageKey(p.key))
               /\ DictGet(check_results.details, PackageKey(p.key)).target = want
               /\ DictGet(check_results.details, PackageKey(p.key)).current = p.line_coverage
               /\ DictGet(check_results.details, PackageKey(p.key)).passed
                     = (p.line_coverage >= want)
               /\ CountAbout(check_results.warnings, PackageKey(p.key))
                     = (IF p.line_coverage < want THEN 1 ELSE 0)

\* a core and a non-core package with the same coverage, between the two
\* targets: the core one falls short, the other one passes
C3_Witness ==
    /\ Checked
    /\ targets.line < targets.function
    /\ \E i, j \in 1..Len(coverage_data.packages) :
          LET p == coverage_data.packages[i]
              q == coverage_data.packages[j]
          IN /\ IsCoreName(p.key) /\ ~IsCoreName(q.key)
             /\ p.line_coverage = q.line_coverage
             /\ ~DictGet(check_results.details, PackageKey(p.key)).passed
             /\ DictGet(check_results.details, PackageKey(q.key)).passed

\* compare_benchmarks has just returned: the three locals of
\* check_regressions belong to the same iteration
Compared ==
    /\ gate = "regression" /\ pc = "scan"
    /\ scanned # <<>> /\ Last(scanned).step = "compared"

\* the document is a mapping whose value for the key has a point estimate
Carries(doc, key) == doc.kind = "map" /\ doc[key].kind = "pe"

\* the document is a mapping without the key
Lacks(doc, key) == doc.kind = "map" /\ doc[key] = Absent

C4_Metric(key, metric, t) ==
    ( /\ Carries(baseline_results, key)
      /\ Carries(current_results, key)
      /\ baseline_results[key].val.num > 0 )
    => LET b == baseline_results[key].val
           c == current_results[key].val
           exact == RatDiv(RatSub(c, b), b)
       IN /\ RatEq(comparison[metric \o "_change"], exact)
          /\ comparison[metric \o "_regression"] <=> RatGT(exact, t)

\* C4: with both estimates carrying the metric and the baseline b > 0, the
\* change is (c - b) / b and the regression flag is true exactly when the
\* change is greater than the threshold (a change equal to the threshold is
\* no regression); for time and for memory, each with its own threshold.
C4_ChangeAndStrictThreshold ==
    Compared =>
        /\ C4_Metric("Mean", "time", thresholds.time)
        /\ C4_Metric("memory", "memory", thresholds.memory)

\* time changed by exactly the threshold (no regression), memory by more
\* than its threshold (a regression)
C4_Witness ==
    /\ Compared
    /\ Carries(baseline_results, "Mean") /\ Carries(current_results, "Mean")
    /\ Carries(baseline_results, "memory") /\ Carries(current_results, "memory")
    /\ RatEq(comparison.time_change, thresholds.time)
    /\ ~comparison.time_regression
    /\ RatGT(comparison.memory_change, thresholds.memory)
    /\ comparison.memory_regression

C5_Metric(key, metric) ==
    ( /\ Carries(baseline_results, key)
      /\ Carries(current_results, key)
      /\ baseline_results[key].val.num > 0
      /\ RatGT(baseline_results[key].val, current_results[key].val) )
    => ~comparison[metric \o "_regression"]

\* C5: with a baseline b > 0 and a current value c < b, neither regression
\* flag is ever set, whatever thresholds the command line gave.
C5_ImprovementNeverFlagged ==
    Compared => (C5_Metric("Mean", "time") /\ C5_Metric("memory", "memory"))

\* compare_benchmarks has just returned or raised
CompareEnded ==
    /\ gate = "regression"
    /\ scanned # <<>>
    /\ \/ pc = "scan" /\ Last(scanned).step = "compared"
       \/ pc = "crashed" /\ Last(scanned).step = "raised"

C6_Metric(key, metric) ==
    ( \/ Lacks(baseline_results, key)
      \/ Lacks(current_results, key)
      \/ Carries(baseline_results, key) /\ baseline_results[key].val.num <= 0 )
    => /\ Last(scanned).raised_at # metric
       /\ Last(scanned).step = "compared" =>
             /\ comparison[metric \o "_change"] = Rat(0, 1)
             /\ ~comparison[metric \o "_regression"]
             /\ ~DictHas(comparison.details, metric)

\* C6: when the baseline point estimate of a metric is <= 0, or either
\* estimate lacks the metric, compare_benchmarks raises nothing for that
\* metric, leaves its change at 0.0 and its flag false and adds no details
\* entry for it.
C6_ExcludedMetricUntouched ==
    CompareEnded => (C6_Metric("Mean", "time") /\ C6_Metric("memory", "memory"))

\* an iteration that found both estimates present, non-empty and regressed
Qualifies(e) ==
    /\ e.baseline_nonempty /\ e.current_nonempty
    /\ e.time_regression \/ e.memory_regression

Benchmarks(s) == [i \in 1..Len(s) |-> s[i].benchmark]

\* check_regressions has returned
ScanReturned == gate = "regression" /\ pc \in {"scanned", "reported", "exited"}

\* C7: the regression set holds exactly the benchmarks, other than base,
\* with both estimates present and non-empty and a regression flag set, in
\* the order of the scan; a benchmark with a missing or empty estimate adds
\* no entry and does not end the scan, which visits every directory under
\* the root other than base.
C7_RegressionSetExact ==
    gate = "regression" =>
        /\ Benchmarks(regressions) = Benchmarks(SelectSeq(scanned, Qualifies))
        /\ \A i \in 1..Len(regressions) : regressions[i].benchmark # "base"
        /\ \A i \in 1..Len(scanned) :
              ~(scanned[i].baseline_nonempty /\ scanned[i].current_nonempty)
                  => scanned[i].step \in {"no_baseline", "no_current"}
        /\ ScanReturned =>
              /\ Len(scanned) = Cardinality(root_dirs \ {"base"})
              /\ Range(Benchmarks(scanned)) = root_dirs \ {"base"}

\* base and two benchmarks under the root: the first has no usable pair of
\* estimates, the scan goes on and the second one is the regression set
C7_Witness ==
    /\ ScanReturned
    /\ "base" \in root_dirs
    /\ Len(scanned) = 2
    /\ ~(scanned[1].baseline_nonempty /\ scanned[1].current_nonempty)
    /\ Len(regressions) = 1
    /\ regressions[1].benchmark = scanned[2].benchmark

\* C8: no run of either gate ends by an uncaught exception.
C8_NoUncaughtException == exc = NoException /\ pc # "crashed"

\* C9: the coverage gate exits 0 exactly when the artifact was loaded and
\* check_coverage passed, and 1 otherwise; when the artifact could not be
\* loaded nothing is evaluated and no report is printed.  The regression
\* gate exits 0 exactly when the regression set is empty and 1 otherwise.
\* Both in text and in JSON mode; the status 0 is only ever the status of a
\* run that reached sys.exit.
C9_ExitCodeIsVerdict ==
    /\ exit_code = 0 => pc = "exited"
    /\ (pc = "exited" /\ gate = "coverage") =>
          /\ exit_code \in {0, 1}
          /\ exit_code = 0 <=> (coverage_data # None /\ Checked /\ check_results.passed)
          /\ coverage_data = None =>
                /\ ~Checked
                /\ \A i \in 1..Len(output) : output[i].kind = "message"
          /\ coverage_data # None =>
                /\ output # <<>>
                /\ Last(output).kind = (IF args_json THEN "json" ELSE "text")
    /\ (pc = "exited" /\ gate = "regression") =>
          /\ exit_code \in {0, 1}
          /\ exit_code = 0 <=> regressions = <<>>
          /\ Last(output).kind = (IF args_json THEN "json" ELSE "text")

\* the coverage artifact could not be loaded: status 1, nothing evaluated,
\* only the message printed
C9_Witness ==
    /\ gate = "coverage" /\ pc = "exited"
    /\ coverage_data = None
    /\ exit_code = 1
    /\ ~Checked
    /\ Len(output) = 1 /\ output[1].kind = "message"

\* the positions of the benchmark headers in a report
HeaderPositions(lines) == {i \in 1..Len(lines) : lines[i].line = "benchmark"}

\* the position of the k-th header
HeaderAt(lines, k) ==
    CHOOSE i \in HeaderPositions(lines) :
        Cardinality({j \in HeaderPositions(lines) : j < i}) = k - 1

\* the positions of the lines of the k-th entry, after its header
EntryPositions(lines, k) ==
    {i \in 1..Len(lines) :
        /\ i > HeaderAt(lines, k)
        /\ \A j \in HeaderPositions(lines) : j > HeaderAt(lines, k) => i < j}

MetricLines(lines, k, metric) ==
    Cardinality({i \in EntryPositions(lines, k) : lines[i].line = metric})

\* the text report of the regression gate was printed for a non-empty set
TextReported ==
    /\ gate = "regression" /\ pc \in {"reported", "exited"}
    /\ ~args_json
    /\ regressions # <<>>

\* C10: the report has one header per entry of the regression set, in the
\* set's order, each followed by exactly one line per regressed metric of
\* that entry; a set flag always comes with its details entry, so that
\* generate_report never fails to find it.
C10_ReportKeepsScanOrder ==
    /\ exc.in # "generate_report"
    /\ gate = "regression" =>
          \A k \in 1..Len(regressions) :
              /\ regressions[k].comparison.time_regression
                    => DictHas(regressions[k].comparison.details, "time")
              /\ regressions[k].comparison.memory_regression
                    => DictHas(regressions[k].comparison.details, "memory")
    /\ TextReported =>
          LET lines == Last(output).lines
          IN /\ Cardinality(HeaderPositions(lines)) = Len(regressions)
             /\ \A k \in 1..Len(regressions) :
                   /\ lines[HeaderAt(lines, k)].name = regressions[k].benchmark
                   /\ MetricLines(lines, k, "time")
                         = (IF regressions[k].comparison.time_regression THEN 1 ELSE 0)
                   /\ MetricLines(lines, k, "memory")
                         = (IF regressions[k].comparison.memory_regression THEN 1 ELSE 0)

\* two entries in the report, the first one regressed in time and in memory
C10_Witness ==
    /\ TextReported
    /\ Len(regressions) = 2
    /\ regressions[1].benchmark # regressions[2].benchmark
    /\ regressions[1].comparison.time_regression
    /\ regressions[1].comparison.memory_regression
    /\ MetricLines(Last(output).lines, 1, "time") = 1
    /\ MetricLines(Last(output).lines, 1, "memory") = 1

====
